---- MODULE Spec2Model ----
(***************************************************************************)
(* A model of scripts/generate_atlas.py: the hash field _h2, the tile      *)
(* painters, the crack overlay generator and main's fixed sequence of      *)
(* painter calls on one RGBA canvas.                                        *)
(*                                                                         *)
(* Numbers.  A hash value k/65535.0 is carried as its numerator k in       *)
(* 0..65535; every comparison and truncation of the source is done on      *)
(* exact integers (h > 0.75 is k*100 > 75*65535, int(h*3.99) is            *)
(* (k*399) \div 6553500).  32-bit words are pairs <<hi, lo>> of 16-bit     *)
(* limbs.  math.cos and math.sin are tabulated, in units of 1/FX, at the   *)
(* angles the program evaluates them at.                                   *)
(***************************************************************************)
EXTENDS Integers, Sequences, FiniteSets, TLC

VARIABLES
    canvas,   \* img: canvas[y][x] is the RGBA tuple of pixel (x, y)
    pc,       \* number of painter calls that have returned (main's, or the harness's)
    phase,    \* main: loop iterations of the current painter call completed
    call,     \* painter harness: the call applied last, or NoCall
    hin,      \* hash harness: the arguments <<x, y, s>> of _h2
    hout      \* hash harness: the numerator of _h2's result, or -1 before the call

vars == <<canvas, pc, phase, call, hin, hout>>

TILE == 16
COLS == 8
ROWS == 8
W == COLS * TILE
H == ROWS * TILE

(***************************************************************************)
(* Bounds of the hash harness.                                             *)
(***************************************************************************)
MaxHX == 1         \* hash harness: x in -MaxHX..MaxHX
MaxHY == 36        \* hash harness: y in 0..MaxHY
MaxHS == 18        \* hash harness: s in -1..MaxHS
MaxCalls == 2      \* painter harness: the calls made of one painter call

(***************************************************************************)
(* Helpers.                                                                *)
(***************************************************************************)
Max(i, j) == IF i >= j THEN i ELSE j
Min(i, j) == IF i <= j THEN i ELSE j
Abs(i) == IF i < 0 THEN -i ELSE i

clamp(v) == Max(0, Min(255, v))

(***************************************************************************)
(* 32-bit arithmetic of _h2 on 16-bit limbs.                               *)
(***************************************************************************)
RECURSIVE XorBits(_, _, _)
XorBits(i, j, n) ==
    IF n = 0 THEN 0
    ELSE ((i + j) % 2) + 2 * XorBits(i \div 2, j \div 2, n - 1)

XorNib == [i \in 0..15 |-> [j \in 0..15 |-> XorBits(i, j, 4)]]

\* i ^ j on the low n hexadecimal digits.
RECURSIVE XorDigits(_, _, _)
XorDigits(i, j, n) ==
    IF n = 0 THEN 0
    ELSE XorNib[i % 16][j % 16] + 16 * XorDigits(i \div 16, j \div 16, n - 1)

Xor16(i, j) == XorDigits(i, j, 4)

\* The low 32 bits of the two's complement of an integer.
Word(n) == <<(n \div 65536) % 65536, n % 65536>>

XorW(u, v) == <<Xor16(u[1], v[1]), Xor16(u[2], v[2])>>

\* (p1 * 256 + p0) & 0xFFFFFFFF
Shift8Add(p1, p0) ==
    <<(p1 \div 256 + ((p1 % 256) * 256 + p0) \div 65536) % 65536,
      ((p1 % 256) * 256 + p0) % 65536>>

\* The 32-bit product of two 16-bit numbers.
Mul16(i, j) == Shift8Add((i \div 256) * j, (i % 256) * j)

\* (ll + cross * 65536) & 0xFFFFFFFF
AddHigh(ll, cross) == <<(cross + ll[1]) % 65536, ll[2]>>

\* (u * v) & 0xFFFFFFFF
MulW(u, v) ==
    AddHigh(Mul16(u[2], v[2]), Mul16(u[1], v[2])[2] + Mul16(u[2], v[1])[2])

\* v >> 13
Shr13(v) == <<v[1] \div 8192, (v[1] % 8192) * 8 + v[2] \div 8192>>

\* v ^= v >> 13;  v = (v * 1274126177) & 0xFFFFFFFF;  v & 0xFFFF
Scramble(v) == MulW(XorW(v, Shr13(v)), Word(1274126177))[2]

\* The numerator k of _h2(x, y, s) = k / 65535.0.
_h2(x, y, s) ==
    Scramble(XorW(XorW(MulW(Word(x), Word(73856093)),
                       MulW(Word(y), Word(19349663))),
                  MulW(Word(s), Word(83492791))))

\* A mutant of Bucket: int(h * 4).
BucketTimes4(k) == (k * 4) \div 65535

\* int(h * 3.99) for h = k / 65535.0: the palette bucket.
Bucket(k) == (k * 399) \div 6553500

\* mix's channel arithmetic in double precision falls one short of the exact
\* quotient at these arguments (t = 11/15), and nowhere else for channels in
\* 0..255.
MixShort(p, q, y) ==
    /\ y = 11
    /\ \/ q - p = 75 /\ p <= 9
       \/ q - p = 150 /\ p <= 18
       \/ q - p = 165 /\ p <= 7

MixChannel(p, q, y) ==
    clamp(p + ((q - p) * y) \div (TILE - 1) - (IF MixShort(p, q, y) THEN 1 ELSE 0))

\* mix(a, b, t) for t = y / (TILE - 1)
mix(c1, c2, y) ==
    <<MixChannel(c1[1], c2[1], y), MixChannel(c1[2], c2[2], y),
      MixChannel(c1[3], c2[3], y), 255>>

(***************************************************************************)
(* math.cos and math.sin.  Trig[n] is <<cos, sin>> of the angle            *)
(* 2*pi*n/131070 in units of 1/FX, rounded to nearest, for the angles      *)
(* crack_tile (n = 2k, angle k/65535 * 2pi) and ore_tile (n = k, angle     *)
(* k/65535 * pi) compute.                                                  *)
(***************************************************************************)
FX == 65535 * 16

\* cs = <<cos, sin>> of an angle
cos(cs) == cs[1]
sin(cs) == cs[2]

Trig ==
      3754 :> << 1031627,   187680>> @@
     18374 :> <<  667440,   808704>> @@
     19523 :> <<  621906,   844222>> @@
     20956 :> <<  562491,   884919>> @@
     22842 :> <<  480297,   932090>> @@
     23114 :> <<  468103,   938274>> @@
     23472 :> <<  451933,   946169>> @@
     24970 :> <<  382881,   976156>> @@
     25264 :> <<  369086,   981455>> @@
     27724 :> <<  251051,  1018063>> @@
     27751 :> <<  249733,  1018387>> @@
     28076 :> <<  233838,  1022154>> @@
     30116 :> <<  132920,  1040101>> @@
     30926 :> <<   92444,  1044477>> @@
     31934 :> <<   41885,  1047723>> @@
     32468 :> <<   15054,  1048452>> @@
     33700 :> <<  -46857,  1047513>> @@
     36102 :> << -166897,  1035192>> @@
     36410 :> << -182163,  1032615>> @@
     38776 :> << -297861,  1005364>> @@
     46862 :> << -655780,   818187>> @@
     48710 :> << -725596,   756960>> @@
     49822 :> << -764897,   717224>> @@
     52188 :> << -841156,   626047>> @@
     55343 :> << -925879,   492166>> @@
     55989 :> << -940673,   463262>> @@
     56885 :> << -959698,   422443>> @@
     60642 :> <<-1019847,   243700>> @@
     62072 :> <<-1034145,   173271>> @@
     63193 :> <<-1041959,   117475>> @@
     64340 :> <<-1046840,    60034>> @@
     66964 :> <<-1046101,   -71773>> @@
     67498 :> <<-1043921,   -98526>> @@
     69280 :> <<-1031708,  -187235>> @@
     80326 :> << -795840,  -682728>> @@
     85664 :> << -597122,  -861930>> @@
     85786 :> << -592071,  -865407>> @@
     89248 :> << -440972,  -951326>> @@
     90516 :> << -382367,  -976357>> @@
     93048 :> << -261336, -1015471>> @@
    100784 :> <<  124440, -1041150>> @@
    102640 :> <<  216459, -1025974>> @@
    105642 :> <<  361359,  -984326>> @@
    107678 :> <<  455558,  -944428>> @@
    109126 :> <<  519965,  -910558>> @@
    113498 :> <<  698030,  -782453>> @@
    114066 :> <<  719074,  -763159>> @@
    119984 :> <<  903943,  -531381>> @@
    124842 :> << 1002174,  -308423>> @@
    126990 :> << 1028568,  -203778>> @@
    128916 :> << 1042975,  -108080>>

\* int(2.0 * math.sin(n * 0.35)), with pi taken as 355/113: the sine is at
\* least 1/2 on [1/12, 5/12] of a turn and at most -1/2 on [7/12, 11/12].
Wave(n) ==
    LET r == (7 * n * 113) % 14200
    IN  IF 12 * r >= 14200 /\ 12 * r <= 5 * 14200 THEN 1
        ELSE IF 12 * r >= 7 * 14200 /\ 12 * r <= 11 * 14200 THEN -1
        ELSE 0

(***************************************************************************)
(* The painters' loop bodies: the colour each writes at the tile-relative  *)
(* pixel (x, y).                                                           *)
(***************************************************************************)
solid(x, y, color) == color

gradient(x, y, top, bot) == mix(top, bot, y)

noise_tile(x, y, idx, base, a, b) ==
    LET h == (x * 37 + y * 71 + idx * 97) % 16
    IN  IF h > 12 THEN a ELSE IF h > 9 THEN b ELSE base

StonePal == <<<<110, 110, 114, 255>>, <<102, 102, 106, 255>>,
              <<122, 122, 127, 255>>, <<96, 96, 100, 255>>>>

\* The palette colour, or the seam colour where the seam test holds.
StoneSeam(x, y, seed, c) ==
    IF (x * 5 + y * 3 + seed) % 19 = 0 THEN <<88, 88, 92, 255>> ELSE c

stone_tile(x, y, seed) ==
    StoneSeam(x, y, seed,
              StonePal[Bucket(_h2(x + seed * 17, y + seed * 23, seed)) + 1])

\* stone_px(x, y) with its local seed and palette as arguments.
StonePx(x, y, seed, pal) ==
    StoneSeam(x, y, seed, pal[Bucket(_h2(x + seed * 17, y + seed * 23, seed)) + 1])

\* A mutant of stone_px: the seed 40 for 41.
stone_px_seed40(x, y) ==
    StonePx(x, y, 40, <<<<110, 110, 114, 255>>, <<102, 102, 106, 255>>,
                        <<122, 122, 127, 255>>, <<96, 96, 100, 255>>>>)

stone_px(x, y) ==
    StonePx(x, y, 41, <<<<110, 110, 114, 255>>, <<102, 102, 106, 255>>,
                        <<122, 122, 127, 255>>, <<96, 96, 100, 255>>>>)

DirtPal == <<<<123, 87, 58, 255>>, <<111, 78, 52, 255>>,
             <<139, 98, 65, 255>>, <<98, 69, 46, 255>>>>

\* A mutant of DirtHighlight: the red channel raised by 128 for 8.
DirtHighlightGlare(x, y, seed, c) ==
    IF (x + y + seed) % 11 = 0 THEN <<c[1] + 128, c[2] + 6, c[3] + 4, 255>> ELSE c

\* The palette colour c, raised where the highlight test holds.
DirtHighlight(x, y, seed, c) ==
    IF (x + y + seed) % 11 = 0 THEN <<c[1] + 8, c[2] + 6, c[3] + 4, 255>> ELSE c

dirt_tile(x, y, seed) ==
    DirtHighlight(x, y, seed,
                  DirtPal[Bucket(_h2(x + seed * 13, y + seed * 19, seed)) + 1])

\* The colour of the noise value n = k / 65535.0.
GrassShade(n) ==
    IF n * 100 > 75 * 65535 THEN <<92, 168, 74, 255>>
    ELSE IF n * 100 < 20 * 65535 THEN <<56, 118, 50, 255>>
    ELSE <<68, 140, 58, 255>>

GrassHighlight(x, y, c) ==
    IF (x + y) % 9 = 0 THEN <<c[1], clamp(c[2] + 10), c[3], 255>> ELSE c

grass_top_tile(x, y) ==
    GrassHighlight(x, y, GrassShade(_h2(x * 3 + 17, y * 5 + 31, 2)))

grass_side_tile(x, y) ==
    IF y < 4
    THEN IF _h2(x * 7 + 11, y * 5 + 19, 3) * 100 > 35 * 65535
         THEN <<72, 146, 62, 255>> ELSE <<60, 128, 54, 255>>
    ELSE IF _h2(x * 5 + 13, y * 7 + 29, 4) * 100 > 40 * 65535
         THEN <<122, 86, 58, 255>> ELSE <<108, 76, 51, 255>>

SandPal == <<<<224, 204, 148, 255>>, <<214, 192, 136, 255>>,
             <<236, 216, 164, 255>>, <<200, 180, 124, 255>>>>

SandShadow(x, y, c) ==
    IF (x - y) % 13 = 0
    THEN <<clamp(c[1] - 10), clamp(c[2] - 8), clamp(c[3] - 6), 255>>
    ELSE c

sand_tile(x, y) ==
    SandShadow(x, y, SandPal[Bucket(_h2(x * 9 + 37, y * 11 + 73, 5)) + 1])

\* ore_tile's two veins.  The angle of vein 0 is a0 = _h2(seed, 11, 91) * pi
\* and of vein 1 is a1 = _h2(seed, 17, 133) * pi; d0 and d1 are the pixel's
\* distances to the veins in units of 1/FX, n0 and n1 its noise numerators.
VeinDist(x, y, cs) == Abs((x - TILE \div 2) * (-sin(cs)) + (y - TILE \div 2) * cos(cs))

D0(x, y, seed) == VeinDist(x, y, Trig[_h2(seed, 11, 91)])
D1(x, y, seed) == VeinDist(x, y, Trig[_h2(seed, 17, 133)])
N0(x, y, seed) == _h2(x + seed * 3, y + seed * 7, 17)
N1(x, y, seed) == _h2(x + seed * 5, y + seed * 11, 23)

\* d0 < 0.95 and n0 > 0.52
Band0(d0, n0) == d0 * 100 < 95 * FX /\ n0 * 100 > 52 * 65535

\* d1 < 0.70 and n1 > 0.70
Band1(d1, n1) == d1 * 100 < 70 * FX /\ n1 * 100 > 70 * 65535

\* d0 < 0.45 and d1 < 0.45 and (n0 + n1) > 1.35
Intersection(d0, d1, n0, n1) ==
    d0 * 100 < 45 * FX /\ d1 * 100 < 45 * FX /\ (n0 + n1) * 100 > 135 * 65535

\* The grain test: which of ore[0..2] the granular deposit picks, or -1.
Grain(x, y, seed) ==
    LET h == (x * 29 + y * 53 + seed * 41) % 256
    IN  IF h > 245 THEN 0 ELSE IF h > 237 THEN 1 ELSE IF h > 230 THEN 2 ELSE -1

\* if test: c = new
Assign(test, new, c) == IF test THEN new ELSE c

\* A mutant of OreVeins: the two band tests applied in the other order.
OreVeinsBand1First(c, d0, d1, n0, n1, ore) ==
    Assign(Intersection(d0, d1, n0, n1), ore[1],
           Assign(Band0(d0, n0), ore[2],
                  Assign(Band1(d1, n1), ore[1], c)))

\* The three vein assignments of ore_tile on the colour c, in the order the
\* code makes them: band 0, then band 1, then the intersection.
OreVeins(c, d0, d1, n0, n1, ore) ==
    Assign(Intersection(d0, d1, n0, n1), ore[1],
           Assign(Band1(d1, n1), ore[1],
                  Assign(Band0(d0, n0), ore[2], c)))

\* The colour before the veins: the grain's, or the stone base.
OreBase(x, y, ore, g) == IF g >= 0 THEN ore[g + 1] ELSE stone_px(x, y)

ore_tile(x, y, ore_a, ore_b, ore_c, seed) ==
    OreVeins(OreBase(x, y, <<ore_a, ore_b, ore_c>>, Grain(x, y, seed)),
             D0(x, y, seed), D1(x, y, seed), N0(x, y, seed), N1(x, y, seed),
             <<ore_a, ore_b, ore_c>>)

Darker(c, n) == <<clamp(c[1] - n), clamp(c[2] - n), clamp(c[3] - n), 255>>

bark_tile(x, y, idx, light, dark, knot) ==
    LET wave == Wave(y + idx * 3)
        stripe == ((x + wave) \div 2) % 2
        c0 == IF stripe = 1 THEN dark ELSE light
        c1 == IF x % 4 = 0 THEN Darker(c0, 8) ELSE c0
        c2 == IF x % 4 = 2 THEN Darker(c1, -6) ELSE c1
    IN  IF (x * 5 + y * 7 + idx) % 47 = 0 THEN knot ELSE c2

birch_bark_tile(x, y, idx) ==
    LET base == <<228, 223, 203, 255>>
        shade == <<208, 202, 182, 255>>
        scar == <<74, 74, 72, 255>>
        c0 == IF (x + y) % 2 = 0 THEN base ELSE shade
        c1 == IF x % 5 = 0 THEN Darker(c0, 6) ELSE c0
        c2 == IF (y * 3 + x * 7 + idx) % 19 = 0 THEN scar ELSE c1
    IN  IF (y * 5 + x * 11 + idx) % 43 = 0 THEN <<56, 56, 54, 255>> ELSE c2

\* log_top_tile on D4 = 4 * d^2, d the distance to the tile's centre:
\* d > 5.8 is D4 * 100 > 13456, and abs((d % 2.0) - 1.0) < 0.18 is
\* 2j + 0.82 < d < 2j + 1.18 for some j.
log_top_tile(x, y, outer, inner, ring) ==
    LET D4 == (2 * x - (TILE - 1)) * (2 * x - (TILE - 1))
              + (2 * y - (TILE - 1)) * (2 * y - (TILE - 1))
        onRing == \E j \in 0..TILE :
                     /\ (200 * j + 82) * (200 * j + 82) < D4 * 2500
                     /\ D4 * 2500 < (200 * j + 118) * (200 * j + 118)
    IN  IF onRing THEN ring
        ELSE IF D4 * 100 > 13456 THEN outer ELSE inner

leaves_tile(x, y, c0, c1, c2, seed) ==
    LET h == (x * 17 + y * 29 + seed * 19) % 256
        c == IF h > 210 THEN c1 ELSE IF h > 180 THEN c2 ELSE c0
        alpha == IF h > 35 THEN 255 ELSE 0
    IN  <<c[1], c[2], c[3], alpha>>

water_tile(x, y) ==
    LET wave == (x * 3 + y * 2 + (6 * _h2(x, y, 77)) \div 65535) % 9
    IN  <<clamp(34 + (20 * wave) \div 8), clamp(86 + (34 * wave) \div 8),
          clamp(164 + (56 * wave) \div 8), 165>>

ice_tile(x, y) ==
    LET wave == (x * 5 + y * 3 + (5 * _h2(x + 13, y + 19, 91)) \div 65535) % 11
    IN  <<clamp(138 + (28 * wave) \div 10), clamp(186 + (34 * wave) \div 10),
          clamp(224 + (20 * wave) \div 10), 255>>

\* A mutant of cactus_side: the edge colour assigned after the flecks.
cactus_side_edge_last(x, y) ==
    LET rot == <<<<52, 132, 64, 255>>, <<61, 151, 74, 255>>, <<42, 112, 52, 255>>>>
        b0 == rot[((x + y) % 3) + 1]
        b1 == IF x % 4 = 0 /\ y % 3 = 0 THEN <<78, 176, 90, 255>> ELSE b0
    IN  IF x \in {0, TILE - 1} THEN <<32, 90, 42, 255>> ELSE b1

cactus_side(x, y) ==
    LET rot == <<<<52, 132, 64, 255>>, <<61, 151, 74, 255>>, <<42, 112, 52, 255>>>>
        b0 == rot[((x + y) % 3) + 1]
        b1 == IF x \in {0, TILE - 1} THEN <<32, 90, 42, 255>> ELSE b0
    IN  IF x % 4 = 0 /\ y % 3 = 0 THEN <<78, 176, 90, 255>> ELSE b1

cactus_top(x, y, idx) ==
    noise_tile(x, y, idx, <<83, 169, 95, 255>>, <<104, 190, 115, 255>>, <<63, 142, 74, 255>>)

(***************************************************************************)
(* crack_tile.  A line's samples are stamped in the order t = -length ..   *)
(* length; a sample outside the tile is skipped.                           *)
(***************************************************************************)
\* alpha = 38 + stage * 14
CrackAlpha(stage) == 38 + stage * 14

\* A mutant of NeighbourAlpha: the neighbour 30 fainter than the sample.
NeighbourAlphaFaint(stage) == CrackAlpha(stage) - 30

\* alpha - 10
NeighbourAlpha(stage) == CrackAlpha(stage) - 10

\* int(round(p / FX)) for a position p in units of 1/FX.
Round(p) == (2 * p + FX) \div (2 * FX)

CrackLength(stage, i) == 4 + (10 * _h2(i + stage, 53, 131)) \div 65535

\* A mutant of CrackNeighbour: the neighbour stamped without the test on x2.
CrackNeighbourNoTest(stage, x2, y) ==
    IF stage >= 4
    THEN <<<<x2, y, <<210, 210, 210, NeighbourAlpha(stage)>>>>>>
    ELSE <<>>

\* if stage >= 4: ... if 0 <= x2 < TILE: set_px(..., x2, y, ...)
CrackNeighbour(stage, x2, y) ==
    IF stage >= 4 /\ 0 <= x2 /\ x2 < TILE
    THEN <<<<x2, y, <<210, 210, 210, NeighbourAlpha(stage)>>>>>>
    ELSE <<>>

\* The writes <<x, y, colour>> of a sample at (x, y), tile-relative; it is
\* the parity of i + t.
CrackStamp(stage, it, x, y) ==
    IF x < 0 \/ x >= TILE \/ y < 0 \/ y >= TILE THEN <<>>
    ELSE <<<<x, y, <<236, 236, 236, CrackAlpha(stage)>>>>>>
         \o CrackNeighbour(stage, x + (IF it % 2 = 0 THEN 1 ELSE -1), y)

\* Sample t of line i, whose direction is cs = <<cos a, sin a>> and whose
\* origin is <<ox, oy>> * (TILE - 1), ox and oy hash numerators.
CrackSample(stage, i, t, cs, ox, oy) ==
    CrackStamp(stage, i + t,
               Round(ox * (TILE - 1) * 16 + cos(cs) * t),
               Round(oy * (TILE - 1) * 16 + sin(cs) * t))

\* for t in range(-length, length + 1), from t on
RECURSIVE CrackFrom(_, _, _, _, _, _, _)
CrackFrom(stage, i, t, length, cs, ox, oy) ==
    IF t > length THEN <<>>
    ELSE CrackSample(stage, i, t, cs, ox, oy)
         \o CrackFrom(stage, i, t + 1, length, cs, ox, oy)

CrackSpan(stage, i, length, cs, ox, oy) ==
    CrackFrom(stage, i, -length, length, cs, ox, oy)

\* The writes of line i of crack_tile(img, idx, stage), in order.
CrackLine(stage, i) ==
    CrackSpan(stage, i, CrackLength(stage, i),
              Trig[2 * _h2(i + stage * 3, 17, 101)],
              _h2(i + stage * 5, 31, 111), _h2(i + stage * 7, 47, 127))

\* A mutant of CrackClear: the tile is not cleared before the lines are drawn.
CrackNoClear(y) == <<>>

\* Row y of crack_tile's clearing loop.
CrackClear(y) == [j \in 1..TILE |-> <<j - 1, y, <<0, 0, 0, 0>>>>]

(***************************************************************************)
(* Painter calls.  A call is a tuple: the painter's name, the tile index  *)
(* and the remaining arguments.                                            *)
(***************************************************************************)
Call(fn, idx, args) == <<fn, idx, args>>

Fn(c) == c[1]
Idx(c) == c[2]
Args(c) == c[3]

NoCall == Call("none", 0, <<>>)

(***************************************************************************)
(* main: the fixed sequence of painter calls, then the ten crack stages.   *)
(***************************************************************************)
BaseCalls == <<
    Call("solid", 0, <<<<0, 0, 0, 0>>>>),
    Call("grass_side_tile", 1, <<>>),
    Call("grass_top_tile", 2, <<>>),
    Call("dirt_tile", 3, <<31>>),
    Call("stone_tile", 4, <<41>>),
    Call("sand_tile", 5, <<>>),
    Call("water_tile", 6, <<>>),
    Call("bark_tile", 7, <<<<140, 108, 72, 255>>, <<104, 78, 50, 255>>, <<162, 126, 86, 255>>>>),
    Call("log_top_tile", 8, <<<<176, 138, 94, 255>>, <<154, 118, 80, 255>>, <<188, 152, 108, 255>>>>),
    Call("leaves_tile", 9, <<<<64, 132, 62>>, <<86, 156, 80>>, <<44, 108, 44>>, 9>>),
    Call("ore_tile", 10, <<<<58, 58, 58, 255>>, <<36, 36, 36, 255>>, <<82, 82, 82, 255>>, 10>>),
    Call("ore_tile", 11, <<<<194, 116, 63, 255>>, <<228, 148, 83, 255>>, <<139, 81, 49, 255>>, 11>>),
    Call("ore_tile", 12, <<<<170, 138, 104, 255>>, <<202, 168, 128, 255>>, <<126, 98, 71, 255>>, 12>>),
    Call("ore_tile", 13, <<<<212, 171, 61, 255>>, <<247, 210, 100, 255>>, <<150, 116, 39, 255>>, 13>>),
    Call("ore_tile", 14, <<<<94, 217, 244, 255>>, <<146, 242, 255, 255>>, <<61, 160, 190, 255>>, 14>>),
    Call("ore_tile", 15, <<<<66, 195, 82, 255>>, <<103, 233, 121, 255>>, <<43, 140, 56, 255>>, 15>>),
    Call("noise_tile", 16, <<<<123, 123, 126, 255>>, <<112, 112, 114, 255>>, <<137, 137, 140, 255>>>>),
    Call("noise_tile", 17, <<<<138, 158, 168, 255>>, <<130, 148, 157, 255>>, <<151, 171, 181, 255>>>>),
    Call("noise_tile", 18, <<<<238, 242, 248, 255>>, <<248, 251, 255, 255>>, <<220, 228, 238, 255>>>>),
    Call("ice_tile", 19, <<>>),
    Call("bark_tile", 20, <<<<96, 74, 50, 255>>, <<68, 52, 34, 255>>, <<118, 92, 62, 255>>>>),
    Call("log_top_tile", 21, <<<<126, 102, 70, 255>>, <<102, 80, 56, 255>>, <<146, 122, 86, 255>>>>),
    Call("leaves_tile", 22, <<<<42, 88, 50>>, <<62, 118, 70>>, <<30, 64, 36>>, 22>>),
    Call("birch_bark_tile", 23, <<>>),
    Call("log_top_tile", 24, <<<<204, 184, 146, 255>>, <<182, 162, 126, 255>>, <<222, 204, 164, 255>>>>),
    Call("leaves_tile", 25, <<<<78, 134, 64>>, <<108, 168, 86>>, <<60, 106, 48>>, 25>>),
    Call("cactus_side", 26, <<>>),
    Call("cactus_top", 27, <<>>),
    Call("noise_tile", 28, <<<<220, 198, 144, 255>>, <<206, 184, 130, 255>>, <<190, 166, 114, 255>>>>) >>

\* for i in range(10): crack_tile(img, 32 + i, i)
CrackCalls == [i \in 1..10 |-> Call("crack_tile", 32 + (i - 1), <<i - 1>>)]

MainCalls == BaseCalls \o CrackCalls

NCalls == Len(MainCalls)

\* The colour the loop body of call c writes at tile pixel (x, y).
PixelOf(c, x, y) ==
    LET g == Args(c)
    IN  CASE Fn(c) = "solid" -> solid(x, y, g[1])
          [] Fn(c) = "gradient" -> gradient(x, y, g[1], g[2])
          [] Fn(c) = "noise_tile" -> noise_tile(x, y, Idx(c), g[1], g[2], g[3])
          [] Fn(c) = "stone_tile" -> stone_tile(x, y, g[1])
          [] Fn(c) = "dirt_tile" -> dirt_tile(x, y, g[1])
          [] Fn(c) = "grass_top_tile" -> grass_top_tile(x, y)
          [] Fn(c) = "grass_side_tile" -> grass_side_tile(x, y)
          [] Fn(c) = "sand_tile" -> sand_tile(x, y)
          [] Fn(c) = "ore_tile" -> ore_tile(x, y, g[1], g[2], g[3], g[4])
          [] Fn(c) = "bark_tile" -> bark_tile(x, y, Idx(c), g[1], g[2], g[3])
          [] Fn(c) = "birch_bark_tile" -> birch_bark_tile(x, y, Idx(c))
          [] Fn(c) = "log_top_tile" -> log_top_tile(x, y, g[1], g[2], g[3])
          [] Fn(c) = "leaves_tile" -> leaves_tile(x, y, g[1], g[2], g[3], g[4])
          [] Fn(c) = "water_tile" -> water_tile(x, y)
          [] Fn(c) = "ice_tile" -> ice_tile(x, y)
          [] Fn(c) = "cactus_side" -> cactus_side(x, y)
          [] Fn(c) = "cactus_top" -> cactus_top(x, y, Idx(c))

\* The iterations of a call's outer loops: TILE rows, and for crack_tile the
\* TILE rows of the clearing loop and then the 3 + stage lines.
Phases(c) == IF Fn(c) = "crack_tile" THEN TILE + 3 + Args(c)[1] ELSE TILE

\* The writes <<x, y, colour>> of iteration ph of call c, in order.
LoopWrites(c, ph) ==
    IF Fn(c) = "crack_tile"
    THEN IF ph < TILE THEN CrackClear(ph) ELSE CrackLine(Args(c)[1], ph - TILE)
    ELSE [j \in 1..TILE |-> <<j - 1, ph, PixelOf(c, j - 1, ph)>>]

\* The painters whose loop body reads idx.
UsesIdx(fn) == fn \in {"noise_tile", "bark_tile", "birch_bark_tile", "cactus_top"}

\* The writes of every iteration of every call of main, tabulated once.
MainWrites ==
    [n \in 1..NCalls |->
        [ph \in 0..(Phases(MainCalls[n]) - 1) |-> LoopWrites(MainCalls[n], ph)]]

\* The calls of main with the painter and the arguments of c, idx apart.
SameAs(c) ==
    {n \in 1..NCalls : Fn(MainCalls[n]) = Fn(c) /\ Args(MainCalls[n]) = Args(c)}

\* LoopWrites(c, ph), read from the table when c is one of main's calls on
\* some tile and its writes do not depend on the tile.
PhaseWrites(c, ph) ==
    IF ~UsesIdx(Fn(c)) /\ SameAs(c) # {}
    THEN MainWrites[CHOOSE n \in SameAs(c) : TRUE][ph]
    ELSE LoopWrites(c, ph)

\* A mutant of TileOrigin: the column taken for the row as well.
TileOriginColumnTwice(idx) == <<(idx % COLS) * TILE, (idx % COLS) * TILE>>

\* tx, ty = idx % COLS, idx // COLS;  ox, oy = tx * TILE, ty * TILE
TileOrigin(idx) == <<(idx % COLS) * TILE, (idx \div COLS) * TILE>>

\* set_px(p, ox, oy, x, y, c):  p[ox + x, oy + y] = c
set_px(img, ox, oy, x, y, c) == [img EXCEPT ![oy + y][ox + x] = c]

\* The writes ws[j], ws[j + 1], ... made in order.
RECURSIVE StoreFrom(_, _, _, _, _)
StoreFrom(img, ox, oy, ws, j) ==
    IF j > Len(ws) THEN img
    ELSE StoreFrom(set_px(img, ox, oy, ws[j][1], ws[j][2], ws[j][3]),
                   ox, oy, ws, j + 1)

\* The writes <<x, y, c>> of ws made in order on the tile of index idx.
Store(img, idx, ws) ==
    StoreFrom(img, TileOrigin(idx)[1], TileOrigin(idx)[2], ws, 1)

\* The iterations ph, ph + 1, ... of call c on img.  (The image an iteration
\* leaves is bound as the element of a singleton, which has it evaluated
\* before the next iteration starts.)
RECURSIVE PaintFrom(_, _, _)
PaintFrom(img, c, ph) ==
    IF ph >= Phases(c) THEN img
    ELSE CHOOSE out \in {PaintFrom(next, c, ph + 1) :
                            next \in {Store(img, Idx(c), PhaseWrites(c, ph))}} : TRUE

\* A whole painter call on img.
Paint(img, c) == PaintFrom(img, c, 0)

\* Image.new("RGBA", (W, H), color)
NewImage(color) == [Y \in 0..(H - 1) |-> [X \in 0..(W - 1) |-> color]]

(***************************************************************************)
(* main.                                                                   *)
(***************************************************************************)
Transparent == <<0, 0, 0, 0>>

Idle == call = NoCall /\ hin = <<0, 0, 0>> /\ hout = -1

Init ==
    /\ canvas = NewImage(Transparent)
    /\ pc = 0
    /\ phase = 0
    /\ Idle

\* One iteration of the outer loop of the painter call main is in.
PaintStep ==
    /\ pc < NCalls
    /\ LET c == MainCalls[pc + 1]
       IN  /\ canvas' = Store(canvas, Idx(c), PhaseWrites(c, phase))
           /\ IF phase + 1 = Phases(c)
              THEN pc' = pc + 1 /\ phase' = 0
              ELSE pc' = pc /\ phase' = phase + 1
    /\ UNCHANGED <<call, hin, hout>>

\* img.save("assets/atlas.png"): the canvas is handed to the encoder.
Save ==
    /\ pc = NCalls
    /\ pc' = NCalls + 1
    /\ UNCHANGED <<canvas, phase, call, hin, hout>>

Next == PaintStep \/ Save

Spec == Init /\ [][Next]_vars

\* Call number n of main (1-based) has returned.
Returned(n) == pc >= n

\* Call number n of main has returned and the next has not begun.
JustReturned(n) == pc = n /\ phase = 0

Saved == pc = NCalls + 1

(***************************************************************************)
(* main from its crack loop on: the canvas is what the calls before the    *)
(* loop leave.                                                             *)
(***************************************************************************)
\* The calls calls[n], calls[n + 1], ... made in order on img.
RECURSIVE PaintCalls(_, _, _)
PaintCalls(img, calls, n) ==
    IF n > Len(calls) THEN img
    ELSE CHOOSE out \in {PaintCalls(next, calls, n + 1) :
                            next \in {Paint(img, calls[n])}} : TRUE

InitCracks ==
    /\ canvas = PaintCalls(NewImage(Transparent), BaseCalls, 1)
    /\ pc = Len(BaseCalls)
    /\ phase = 0
    /\ Idle

SpecCracks == InitCracks /\ [][Next]_vars

(***************************************************************************)
(* The painter harness: one painter call with any tile index of the grid   *)
(* on an image no pixel of which has a colour a painter writes, and the    *)
(* same call made again.  pc counts the calls that have returned.          *)
(***************************************************************************)
TileIdx == 0..(COLS * ROWS - 1)

Magenta == <<255, 0, 255, 255>>

InitPainter ==
    /\ canvas = NewImage(Magenta)
    /\ pc = 0
    /\ phase = 0
    /\ Idle

Invoke(c) ==
    /\ Fn(call) = "none"
    /\ canvas' = Paint(canvas, c)
    /\ call' = c
    /\ pc' = pc + 1
    /\ UNCHANGED <<phase, hin, hout>>

CallSolid == \E i \in TileIdx : Invoke(Call("solid", i, <<Transparent>>))

CallGradient ==
    \E i \in TileIdx :
        Invoke(Call("gradient", i, <<<<0, 10, 200, 255>>, <<75, 160, 40, 255>>>>))

CallNoise ==
    \E i \in TileIdx :
        Invoke(Call("noise_tile", i, Args(MainCalls[17])))

CallStone == \E i \in TileIdx : Invoke(Call("stone_tile", i, <<41>>))

CallDirt == \E i \in TileIdx : Invoke(Call("dirt_tile", i, <<31>>))

CallGrassTop == \E i \in TileIdx : Invoke(Call("grass_top_tile", i, <<>>))

CallGrassSide == \E i \in TileIdx : Invoke(Call("grass_side_tile", i, <<>>))

CallSand == \E i \in TileIdx : Invoke(Call("sand_tile", i, <<>>))

CallOre ==
    \E i \in TileIdx, n \in {11, 13} : Invoke(Call("ore_tile", i, Args(MainCalls[n])))

CallBark == \E i \in TileIdx : Invoke(Call("bark_tile", i, Args(MainCalls[8])))

CallBirchBark == \E i \in TileIdx : Invoke(Call("birch_bark_tile", i, <<>>))

CallLogTop == \E i \in TileIdx : Invoke(Call("log_top_tile", i, Args(MainCalls[9])))

CallLeaves == \E i \in TileIdx : Invoke(Call("leaves_tile", i, Args(MainCalls[10])))

CallWater == \E i \in TileIdx : Invoke(Call("water_tile", i, <<>>))

CallIce == \E i \in TileIdx : Invoke(Call("ice_tile", i, <<>>))

CallCactusSide == \E i \in TileIdx : Invoke(Call("cactus_side", i, <<>>))

CallCactusTop == \E i \in TileIdx : Invoke(Call("cactus_top", i, <<>>))

CallCrack ==
    \E i \in TileIdx, stage \in 0..9 : Invoke(Call("crack_tile", i, <<stage>>))

\* The same call once more, on the canvas the first one left.
Reinvoke ==
    /\ Fn(call) # "none"
    /\ pc < MaxCalls
    /\ canvas' = Paint(canvas, call)
    /\ pc' = pc + 1
    /\ UNCHANGED <<phase, call, hin, hout>>

NextPainter ==
    \/ CallSolid \/ CallGradient \/ CallNoise \/ CallStone \/ CallDirt
    \/ CallGrassTop \/ CallGrassSide \/ CallSand \/ CallOre \/ CallBark
    \/ CallBirchBark \/ CallLogTop \/ CallLeaves \/ CallWater \/ CallIce
    \/ CallCactusSide \/ CallCactusTop \/ CallCrack \/ Reinvoke

SpecPainter == InitPainter /\ [][NextPainter]_vars

(***************************************************************************)
(* The hash harness: _h2 applied to arguments drawn from a box.            *)
(***************************************************************************)
InitHash ==
    /\ canvas = NewImage(Transparent)
    /\ pc = 0
    /\ phase = 0
    /\ call = NoCall
    /\ hin \in ((-MaxHX)..MaxHX) \X (0..MaxHY) \X ((-1)..MaxHS)
    /\ hout = -1

Hash ==
    /\ hout = -1
    /\ hout' = _h2(hin[1], hin[2], hin[3])
    /\ UNCHANGED <<canvas, pc, phase, call, hin>>

NextHash == Hash

SpecHash == InitHash /\ [][NextHash]_vars

(***************************************************************************)
(* The claims.  A tile's rectangle is taken from the claims' words, not    *)
(* from TileOrigin.                                                        *)
(***************************************************************************)
Cells == 0..(TILE - 1)

RectX(i) == (i % COLS) * TILE
RectY(i) == (i \div COLS) * TILE

\* The pixel of img at (x, y) of the rectangle of tile i.
At(img, i, x, y) == img[RectY(i) + y][RectX(i) + x]

Channel == 0..255

\* C1: a painter call on tile i changes no pixel outside the rectangle of
\* tile i: every row outside it is left as it was, and so is every pixel of
\* the rectangle's rows that lies left or right of it.
TileIsolation ==
    [][\A Y \in 0..(H - 1) :
          IF Y \in RectY(Idx(call'))..(RectY(Idx(call')) + TILE - 1)
          THEN \A X \in (0..(W - 1)) \ (RectX(Idx(call'))..(RectX(Idx(call')) + TILE - 1)) :
                  canvas'[Y][X] = canvas[Y][X]
          ELSE canvas'[Y] = canvas[Y]]_vars

\* C1's case: crack_tile at a stage >= 4 has stamped a sample in the first
\* column of a tile that has a left neighbour, and the neighbour's adjoining
\* pixel is as it was.
CrackAtTileEdge ==
    /\ Fn(call) = "crack_tile"
    /\ Args(call)[1] >= 4
    /\ Idx(call) % COLS > 0
    /\ \E y \in Cells :
          /\ At(canvas, Idx(call), 0, y)[1] = 236
          /\ canvas[RectY(Idx(call)) + y][RectX(Idx(call)) - 1] = Magenta

\* C2: in every state of a run of main every channel of every pixel of the
\* canvas is an integer in 0..255.
ChannelBounds ==
    canvas \in [0..(H - 1) -> [0..(W - 1) -> Channel \X Channel \X Channel \X Channel]]

\* C2's case: the run is over, the dirt tile holds a highlighted pixel (the
\* palette colour plus <<8, 6, 4>>) and the stage-9 crack tile holds both
\* the sample alpha 38 + 14 * 9 and the neighbour alpha ten below it.
UnclampedPathsTaken ==
    /\ Saved
    /\ \E x, y \in Cells :
          /\ (x + y + 31) % 11 = 0
          /\ \E k \in 1..4 :
                At(canvas, 3, x, y) = <<DirtPal[k][1] + 8, DirtPal[k][2] + 6, DirtPal[k][3] + 4, 255>>
    /\ \E x, y \in Cells : At(canvas, 41, x, y)[4] = 164
    /\ \E x, y \in Cells : At(canvas, 41, x, y)[4] = 154

Blank == NewImage(Transparent)

\* C3: what a painter call leaves in its tile depends on the call's
\* arguments only: after the call has been made, once or again, on a canvas
\* that was magenta, the tile is pixel for pixel what the same call leaves on
\* a transparent canvas.
PainterDeterminism ==
    Fn(call) # "none" =>
        \A out \in {Paint(Blank, call)} :
            \A x, y \in Cells : At(canvas, Idx(call), x, y) = At(out, Idx(call), x, y)

\* C3's case: crack_tile, which stamps only some pixels, has been called a
\* second time and its tile holds cleared and stamped pixels.
CrackCalledAgain ==
    /\ Fn(call) = "crack_tile"
    /\ pc >= 2
    /\ \E x, y \in Cells : At(canvas, Idx(call), x, y) = Transparent
    /\ \E x, y \in Cells : At(canvas, Idx(call), x, y)[4] > 0

\* C4: once main's first call has returned, every pixel of tile 0 has
\* alpha 0, in every later state of the run.
AirTile == Returned(1) => \A x, y \in Cells : At(canvas, 0, x, y)[4] = 0

\* C4's case: the run is over, the tiles right of and below tile 0 are
\* painted opaque, and tile 0 is transparent.
AirTileAtSave ==
    /\ Saved
    /\ At(canvas, 1, 0, 0)[4] = 255
    /\ At(canvas, 8, 0, 0)[4] = 255
    /\ \A x, y \in Cells : At(canvas, 0, x, y) = Transparent

\* C5 as amended: _h2 returns v = k / 65535 with 0 <= k <= 65535, so
\* 0 <= v <= 1, and the palette bucket int(v * 3.99) is in 0..3.
HashInUnitInterval == hout # -1 => hout \in 0..65535 /\ Bucket(hout) \in 0..3

\* C5's case: _h2(1, 36, 18) has returned exactly 1.
HashReturnsOne == hin = <<1, 36, 18>> /\ hout = 65535

\* C5 as claimed: _h2 returns v with 0 <= v < 1, and the palette bucket is
\* in 0..3.
HashBelowOne == hout # -1 => hout \in 0..65534 /\ Bucket(hout) \in 0..3

\* The number of pixels of tile i with alpha > 0.
NonTransparent(img, i) ==
    Cardinality({xy \in Cells \X Cells : At(img, i, xy[1], xy[2])[4] > 0})

\* f[0] + ... + f[n]
RECURSIVE SumTo(_, _)
SumTo(f, n) == IF n < 0 THEN 0 ELSE f[n] + SumTo(f, n - 1)

\* The sum of the alphas of tile i.
AlphaSum(img, i) ==
    SumTo([y \in Cells |-> SumTo([x \in Cells |-> At(img, i, x, y)[4]], TILE - 1)],
          TILE - 1)

\* The number (1-based) of main's call that paints crack stage s, and its tile.
CrackCallNo(s) == Len(BaseCalls) + s + 1
CrackTile(s) == Idx(MainCalls[CrackCallNo(s)])

\* C6 as claimed: for stages s1 < s2, once both crack tiles are painted, the
\* stage-s2 tile has at least as many pixels of alpha > 0 as the stage-s1
\* tile.
CrackCountMonotone ==
    \A s1, s2 \in 0..9 :
        s1 < s2 /\ (JustReturned(CrackCallNo(s2)) \/ Saved) =>
            NonTransparent(canvas, CrackTile(s1)) <= NonTransparent(canvas, CrackTile(s2))

\* C6's case: the run is over; the stage-8 tile has 172 pixels of alpha > 0
\* and the stage-9 tile 164.
CrackCountDrops ==
    /\ Saved
    /\ NonTransparent(canvas, CrackTile(8)) = 172
    /\ NonTransparent(canvas, CrackTile(9)) = 164

\* C7: for stages s1 < s2, once both crack tiles are painted, the average
\* alpha over the pixels of alpha > 0 of the stage-s2 tile is at least that
\* of the stage-s1 tile (the averages compared as cross products).
CrackAlphaMonotone ==
    \A s1, s2 \in 0..9 :
        s1 < s2 /\ (JustReturned(CrackCallNo(s2)) \/ Saved) =>
            /\ NonTransparent(canvas, CrackTile(s1)) > 0
            /\ NonTransparent(canvas, CrackTile(s2)) > 0
            /\ AlphaSum(canvas, CrackTile(s1)) * NonTransparent(canvas, CrackTile(s2))
                  <= AlphaSum(canvas, CrackTile(s2)) * NonTransparent(canvas, CrackTile(s1))

\* C7's case: the stage-4 tile is painted and holds sample pixels (alpha 94)
\* and neighbour pixels (alpha 84), and the stage-3 tile holds sample pixels
\* only (alpha 80).
CrackNeighboursBegin ==
    /\ JustReturned(CrackCallNo(4))
    /\ \E x, y \in Cells : At(canvas, CrackTile(4), x, y) = <<236, 236, 236, 94>>
    /\ \E x, y \in Cells : At(canvas, CrackTile(4), x, y) = <<210, 210, 210, 84>>
    /\ \A x, y \in Cells : At(canvas, CrackTile(3), x, y)[4] \in {0, 80}
    /\ AlphaSum(canvas, CrackTile(4)) < 94 * NonTransparent(canvas, CrackTile(4))

\* The numbers of main's calls of ore_tile.
OreCallNos == {n \in 1..NCalls : Fn(MainCalls[n]) = "ore_tile"}

OreSeed(n) == Args(MainCalls[n])[4]

\* Both band masks hit at (x, y), and the intersection rule does not.
BothBands(x, y, seed) ==
    /\ Band0(D0(x, y, seed), N0(x, y, seed))
    /\ Band1(D1(x, y, seed), N1(x, y, seed))
    /\ ~Intersection(D0(x, y, seed), D1(x, y, seed), N0(x, y, seed), N1(x, y, seed))

\* The intersection rule hits at (x, y).
Crossing(x, y, seed) ==
    Intersection(D0(x, y, seed), D1(x, y, seed), N0(x, y, seed), N1(x, y, seed))

\* C8 as amended: the overlays are applied in the order grain, band 0,
\* band 1, intersection.  Where both band masks hit and the intersection
\* rule does not, the pixel has the colour band 1 writes (ore_a); where the
\* intersection rule hits, the pixel has its colour (ore_a).
OreBand1Overrides ==
    \A n \in OreCallNos :
        JustReturned(n) \/ Saved =>
            \A x, y \in Cells :
                /\ BothBands(x, y, OreSeed(n)) =>
                      At(canvas, Idx(MainCalls[n]), x, y) = Args(MainCalls[n])[1]
                /\ Crossing(x, y, OreSeed(n)) =>
                      At(canvas, Idx(MainCalls[n]), x, y) = Args(MainCalls[n])[1]

\* C8's case: an ore_tile call has returned; some pixel of its tile is hit
\* by both band masks and not by the intersection rule, and some pixel by
\* the intersection rule.
OreBandsOverlap ==
    \E n \in OreCallNos :
        /\ JustReturned(n)
        /\ \E x, y \in Cells : BothBands(x, y, OreSeed(n))
        /\ \E x, y \in Cells : Crossing(x, y, OreSeed(n))

\* C8 as claimed: where both band masks hit and the intersection rule does
\* not, the pixel has the colour band 0 writes (ore_b); where the
\* intersection rule hits, the pixel has its colour.
OreBand0Overrides ==
    \A n \in OreCallNos :
        JustReturned(n) \/ Saved =>
            \A x, y \in Cells :
                /\ BothBands(x, y, OreSeed(n)) =>
                      At(canvas, Idx(MainCalls[n]), x, y) = Args(MainCalls[n])[2]
                /\ Crossing(x, y, OreSeed(n)) =>
                      At(canvas, Idx(MainCalls[n]), x, y) = Args(MainCalls[n])[1]

\* None of the grain, band 0, band 1 and intersection overlays hits (x, y).
NoOverlay(x, y, seed) ==
    /\ Grain(x, y, seed) = -1
    /\ ~Band0(D0(x, y, seed), N0(x, y, seed))
    /\ ~Band1(D1(x, y, seed), N1(x, y, seed))
    /\ ~Crossing(x, y, seed)

\* The tile main paints with stone_tile.
StoneTile == Idx(CHOOSE c \in {MainCalls[n] : n \in 1..NCalls} : Fn(c) = "stone_tile")

\* C9: stone_px(x, y) is the colour main's stone_tile call has written at
\* (x, y) of the stone tile, and every pixel of an ore tile that no overlay
\* hits equals the stone tile's pixel at the same place in the tile.
OreBaseIsStone ==
    \A n \in OreCallNos :
        JustReturned(n) \/ Saved =>
            \A x, y \in Cells :
                /\ stone_px(x, y) = At(canvas, StoneTile, x, y)
                /\ NoOverlay(x, y, OreSeed(n)) =>
                      At(canvas, Idx(MainCalls[n]), x, y) = At(canvas, StoneTile, x, y)

\* C9's case: an ore_tile call has returned; its tile has a pixel no overlay
\* hits and a pixel that an overlay has given another colour than the stone
\* tile's.
OreShowsStone ==
    \E n \in OreCallNos :
        /\ JustReturned(n)
        /\ \E x, y \in Cells : NoOverlay(x, y, OreSeed(n))
        /\ \E x, y \in Cells :
              At(canvas, Idx(MainCalls[n]), x, y) # At(canvas, StoneTile, x, y)

CactusEdge == <<32, 90, 42, 255>>
CactusFleck == <<78, 176, 90, 255>>

\* C10 as amended: after cactus_side has painted a tile, every pixel of the
\* last column has the edge colour, and a pixel of the first column has the
\* fleck colour in the rows y with y mod 3 = 0 and the edge colour in the
\* other rows.
CactusEdgeColumns ==
    Fn(call) = "cactus_side" =>
        \A y \in Cells :
            /\ At(canvas, Idx(call), TILE - 1, y) = CactusEdge
            /\ At(canvas, Idx(call), 0, y) = IF y % 3 = 0 THEN CactusFleck ELSE CactusEdge

\* C10's case: cactus_side has painted the last tile of the grid; its first
\* column holds a fleck in row 0 and the edge colour in row 1.
CactusFleckOnEdge ==
    /\ Fn(call) = "cactus_side"
    /\ Idx(call) = COLS * ROWS - 1
    /\ At(canvas, Idx(call), 0, 0) = CactusFleck
    /\ At(canvas, Idx(call), 0, 1) = CactusEdge
    /\ At(canvas, Idx(call), TILE - 1, 0) = CactusEdge

\* C10 as claimed: after cactus_side has painted a tile, every pixel of the
\* first and of the last column has the edge colour.
CactusEdgesDark ==
    Fn(call) = "cactus_side" =>
        \A y \in Cells :
            /\ At(canvas, Idx(call), 0, y) = CactusEdge
            /\ At(canvas, Idx(call), TILE - 1, y) = CactusEdge

====
